---- MODULE Spec2Model ----
(***************************************************************************)
(* Model of official/vision/detection/main.py: the run orchestrator that   *)
(* merges the configuration, resolves the file patterns, builds the input  *)
(* functions and dispatches on FLAGS.mode to the distributed executor.     *)
(*                                                                         *)
(* Python values are encoded as follows:                                   *)
(*   None (string-valued flag or field)  the string NoneStr                *)
(*   None (object)                       the empty sequence <<>>           *)
(*   an object o                         the one-element sequence <<o>>    *)
(*   a dict                              the sequence of its <<key, value>>*)
(*                                       items in insertion order          *)
(***************************************************************************)
EXTENDS Integers, Sequences, FiniteSets, TLC

\* ------------------------------------------------------------------ bounds
\* Largest num_replicas_in_sync a strategy reports (more than one host of 8).
MaxReplicas == 9
\* Largest train.batch_size a configuration carries.
MaxBatch == 4
\* Largest scalar an evaluation metric takes.
MaxMetric == 1

\* ------------------------------------------------------------------ values
NoneStr == "<None>"
None == <<>>
Some(x) == <<x>>

\* Python truthiness of a string-or-None value: None and '' are falsy.
Truthy(s) == s # NoneStr /\ s # ""

\* Python `a or b`: a when a is truthy, else b (whatever b is).
PyOr(a, b) == IF Truthy(a) THEN a ELSE b

\* Values --mode is given in the model: the three the help text documents
\* and one it does not.
Modes == {"train", "eval", "train_and_eval", "bogus"}
\* The modes the help string of the flag announces.
DocumentedModes == {"train", "eval", "train_and_eval"}
Models == {"retinanet", "shapemask"}
FlagPatterns == {NoneStr, "", "flag_pattern"}

\* Keys of the base configuration that an override may address.
KnownKeys == {"train.train_file_pattern", "eval.eval_file_pattern",
              "train.batch_size"}

\* An override dictionary; the model carries dictionaries of at most one key.
OverrideDicts ==
    {[key |-> "train.train_file_pattern", sval |-> "cfg_pattern", ival |-> 0],
     [key |-> "eval.eval_file_pattern", sval |-> "cfg_pattern", ival |-> 0],
     [key |-> "unknown.key", sval |-> "x", ival |-> 0]}
    \cup {[key |-> "train.batch_size", sval |-> "", ival |-> b] : b \in 1..MaxBatch}
Overrides == {None} \cup {Some(d) : d \in OverrideDicts}

MetricNames == <<"AP", "AR">>
\* The dicts evaluate_from_model_dir may report: a prefix of the metric names,
\* each with a scalar.
RECURSIVE MetricDicts(_)
MetricDicts(n) ==
    IF n = 0 THEN {<<>>}
    ELSE MetricDicts(n - 1) \cup
         {Append(d, <<MetricNames[n], v>>) :
            d \in {e \in MetricDicts(n - 1) : Len(e) = n - 1}, v \in 0..MaxMetric}

VARIABLES
    FLAGS,                  \* the parsed command-line flags
    pc,                     \* position of the run in main / run_executor
    params,                 \* the configuration object, None before line 130
    locked,                 \* params.lock() has run
    validated,              \* params.validate() has returned
    training_file_pattern,  \* local of main, line 152
    eval_file_pattern,      \* local of main, line 153
    train_input_fn,         \* local of main / run_executor
    eval_input_fn,          \* local of main
    strategy,               \* builder.strategy: num_replicas_in_sync
    is_multi_host,          \* local of run_executor, line 72
    calls,                  \* the executor operations invoked, in order
    results,                \* what evaluate_from_model_dir returned
    todo,                   \* items of results the logging loop has yet to visit
    log,                    \* logging.info records
    retval,                 \* what main returned
    err                     \* the exception that ended the run

vars == <<FLAGS, pc, params, locked, validated, training_file_pattern,
          eval_file_pattern, train_input_fn, eval_input_fn, strategy,
          is_multi_host, calls, results, todo, log, retval, err>>

NoErr == [kind |-> "", msg |-> <<>>]
NoRet == [kind |-> "none", metrics |-> <<>>]
\* A local that has not been assigned yet.
Unbound == "<unbound>"

Init ==
    /\ FLAGS \in [mode : Modes, model : Models,
                  training_file_pattern : FlagPatterns,
                  eval_file_pattern : FlagPatterns,
                  config_file : Overrides,
                  params_override : Overrides,
                  strategy_type : {"mirrored"},
                  model_dir : {"/tmp/model_dir"}]
    /\ pc = "config_generator"
    /\ params = None
    /\ locked = FALSE
    /\ validated = FALSE
    /\ training_file_pattern = Unbound
    /\ eval_file_pattern = Unbound
    /\ train_input_fn = None
    /\ eval_input_fn = None
    /\ strategy = None
    /\ is_multi_host = FALSE
    /\ calls = <<>>
    /\ results = <<>>
    /\ todo = <<>>
    /\ log = <<>>
    /\ retval = NoRet
    /\ err = NoErr

\* An exception propagates to the process boundary.
Raise(kind, msg) ==
    /\ pc' = "failed"
    /\ err' = [kind |-> kind, msg |-> msg]

\* ------------------------------------------------------ the configuration
\* The configuration main holds (the object inside the option).
Cfg == params[1]

\* configs/factory.config_generator: the default configuration of a model
\* type; the file patterns default to '' and the batch sizes are the model's.
DefaultConfig(model, b, eb) ==
    [type |-> model,
     strategy_type |-> "",
     model_dir |-> "",
     strategy_config |-> "",
     train |-> [batch_size |-> b, train_file_pattern |-> ""],
     eval |-> [batch_size |-> eb, eval_file_pattern |-> "",
               eval_samples |-> "eval_samples"]]

\* One key of an override dictionary written into a configuration.
SetKey(p, d) ==
    CASE d.key = "train.train_file_pattern" ->
           [p EXCEPT !.train.train_file_pattern = d.sval]
      [] d.key = "eval.eval_file_pattern" ->
           [p EXCEPT !.eval.eval_file_pattern = d.sval]
      [] d.key = "train.batch_size" ->
           [p EXCEPT !.train.batch_size = d.ival]
      [] OTHER -> p

\* params_dict.override_params_dict(params, o, is_strict=True): None leaves
\* the configuration alone, a key the base configuration lacks is an error.
StrictOverrideFails(o) == o # None /\ o[1].key \notin KnownKeys
StrictOverride(p, o) == IF o = None THEN p ELSE SetKey(p, o[1])

\* params.override({...}, is_strict=False) of lines 137-143.
RuntimeOverride(p) ==
    [p EXCEPT !.strategy_type = FLAGS.strategy_type,
              !.model_dir = FLAGS.model_dir,
              !.strategy_config = "strategy_flags_dict"]

\* ------------------------------------------------------------------- main
\* The variables of run_executor and of the executor, untouched by main's
\* configuration steps.
runVars == <<training_file_pattern, eval_file_pattern, train_input_fn,
             eval_input_fn, strategy, is_multi_host, calls, results, todo,
             retval>>

\* line 130: params = config_factory.config_generator(FLAGS.model)
ConfigGenerator ==
    /\ pc = "config_generator"
    /\ \E b \in 1..MaxBatch, eb \in {1, MaxBatch} :
         params' = Some(DefaultConfig(FLAGS.model, b, eb))
    /\ pc' = "override_config_file"
    /\ UNCHANGED <<FLAGS, locked, validated, runVars, log, err>>

\* lines 132-133: strict override from FLAGS.config_file
OverrideConfigFile ==
    /\ pc = "override_config_file"
    /\ IF StrictOverrideFails(FLAGS.config_file)
       THEN /\ Raise("ConfigOverrideError", <<FLAGS.config_file[1].key>>)
            /\ UNCHANGED params
       ELSE /\ params' = Some(StrictOverride(Cfg, FLAGS.config_file))
            /\ pc' = "override_params"
            /\ UNCHANGED err
    /\ UNCHANGED <<FLAGS, locked, validated, runVars, log>>

\* lines 135-136: strict override from FLAGS.params_override
OverrideParams ==
    /\ pc = "override_params"
    /\ IF StrictOverrideFails(FLAGS.params_override)
       THEN /\ Raise("ConfigOverrideError", <<FLAGS.params_override[1].key>>)
            /\ UNCHANGED params
       ELSE /\ params' = Some(StrictOverride(Cfg, FLAGS.params_override))
            /\ pc' = "override_runtime"
            /\ UNCHANGED err
    /\ UNCHANGED <<FLAGS, locked, validated, runVars, log>>

\* lines 137-143: non-strict override with the runtime values
OverrideRuntime ==
    /\ pc = "override_runtime"
    /\ params' = Some(RuntimeOverride(Cfg))
    /\ pc' = "validate"
    /\ UNCHANGED <<FLAGS, locked, validated, runVars, log, err>>

\* Validate placed ahead of the strict overrides as well.
Validate_BeforeOverride ==
    /\ \/ /\ pc = "validate"
          /\ pc' = "lock"
       \/ /\ pc = "override_config_file"
          /\ ~validated
          /\ pc' = pc
    /\ validated' = TRUE
    /\ UNCHANGED <<FLAGS, params, locked, runVars, log, err>>

\* line 144: params.validate(); the rules are the configuration's own, so
\* either outcome is possible here.
Validate ==
    /\ pc = "validate"
    /\ \/ /\ validated' = TRUE
          /\ pc' = "lock"
          /\ UNCHANGED err
       \/ /\ Raise("ValidationError", <<>>)
          /\ UNCHANGED validated
    /\ UNCHANGED <<FLAGS, params, locked, runVars, log>>

\* lines 145-148: params.lock(), then the parameters are pretty-printed
\* and logged.
Lock ==
    /\ pc = "lock"
    /\ locked' = TRUE
    /\ log' = Append(log, <<"Model Parameters: ", Cfg>>)
    /\ pc' = "resolve_patterns"
    /\ UNCHANGED <<FLAGS, params, validated, runVars, err>>

\* NoPatterns with the emptiness test written as a comparison with None.
NoPatterns_IsNone(t, e) == t = NoneStr /\ e = NoneStr

\* line 154: the test that guards the missing-input error.
NoPatterns(t, e) == ~Truthy(t) /\ ~Truthy(e)

\* lines 150-156: the effective file patterns and the at-least-one check
ResolvePatterns ==
    /\ pc = "resolve_patterns"
    /\ training_file_pattern' =
         PyOr(FLAGS.training_file_pattern, Cfg.train.train_file_pattern)
    /\ eval_file_pattern' =
         PyOr(FLAGS.eval_file_pattern, Cfg.eval.eval_file_pattern)
    /\ IF NoPatterns(training_file_pattern', eval_file_pattern')
       THEN Raise("MissingInputError",
                  <<"Must provide at least one of training_file_pattern and eval_file_pattern.">>)
       ELSE pc' = "train_input" /\ UNCHANGED err
    /\ UNCHANGED <<FLAGS, params, locked, validated, train_input_fn,
                   eval_input_fn, strategy, is_multi_host, calls, results,
                   todo, log, retval>>

\* input_reader.InputFn(...) of lines 160-164
TrainInputFn(pattern, p) ==
    [file_pattern |-> pattern, mode |-> "TRAIN",
     batch_size |-> p.train.batch_size]

\* input_reader.InputFn(...) of lines 167-172
EvalInputFn(pattern, p) ==
    [file_pattern |-> pattern, mode |-> "PREDICT_WITH_GT",
     batch_size |-> p.eval.batch_size, num_examples |-> p.eval.eval_samples]

\* lines 158-164
BuildTrainInput ==
    /\ pc = "train_input"
    /\ train_input_fn' =
         IF Truthy(training_file_pattern)
         THEN Some(TrainInputFn(training_file_pattern, Cfg))
         ELSE train_input_fn
    /\ pc' = "eval_input"
    /\ UNCHANGED <<FLAGS, params, locked, validated, training_file_pattern,
                   eval_file_pattern, eval_input_fn, strategy, is_multi_host,
                   calls, results, todo, log, retval, err>>

\* lines 166-172
BuildEvalInput ==
    /\ pc = "eval_input"
    /\ eval_input_fn' =
         IF Truthy(eval_file_pattern)
         THEN Some(EvalInputFn(eval_file_pattern, Cfg))
         ELSE eval_input_fn
    /\ pc' = "run_executor"
    /\ UNCHANGED <<FLAGS, params, locked, validated, training_file_pattern,
                   eval_file_pattern, train_input_fn, strategy, is_multi_host,
                   calls, results, todo, log, retval, err>>

\* ----------------------------------------------------------- run_executor
\* line 63 and line 96: the modes run_executor has a branch for.
RecognizedModes == {"train", "eval"}

\* line 124: 'Mode not found: %s.' % FLAGS.mode
ModeNotFound(mode) == <<"Mode not found: ", mode, ".">>

\* Dispatch with the evaluation branch as the final else.
Dispatch_ElseEval ==
    /\ pc = "run_executor"
    /\ IF FLAGS.mode = "train" THEN pc' = "train_strategy" ELSE pc' = "eval"
    /\ UNCHANGED <<FLAGS, params, locked, validated, runVars, log, err>>

\* lines 61-63, 96, 123-124: the model builder is made, then the mode switch
Dispatch ==
    /\ pc = "run_executor"
    /\ IF FLAGS.mode = "train" THEN pc' = "train_strategy" /\ UNCHANGED err
       ELSE IF FLAGS.mode = "eval" THEN pc' = "eval" /\ UNCHANGED err
       ELSE Raise("InvalidModeError", ModeNotFound(FLAGS.mode))
    /\ UNCHANGED <<FLAGS, params, locked, validated, runVars, log>>

\* line 71: (num_replicas_in_sync + 7) / 8 under `from __future__ import
\* division` is true division; the quotient is kept as a fraction.
NumWorkers(n) == [num |-> n + 7, den |-> 8]

\* line 72: num_workers > 1, a fraction compared with an integer.
IsMultiHost(n) == NumWorkers(n).num > 1 * NumWorkers(n).den

\* lines 68-72: the executor builder makes the strategy; its replica count
\* is the runtime's.
TrainStrategy ==
    /\ pc = "train_strategy"
    /\ \E n \in 1..MaxReplicas :
         /\ strategy' = Some([num_replicas_in_sync |-> n])
         /\ is_multi_host' = IsMultiHost(n)
    /\ pc' = "train_rescale"
    /\ UNCHANGED <<FLAGS, params, locked, validated, training_file_pattern,
                   eval_file_pattern, train_input_fn, eval_input_fn, calls,
                   results, todo, log, retval, err>>

\* PerHostBatchSize rounding up.
PerHostBatchSize_Ceil(b, n) == (b + n - 1) \div n

\* lines 76-77: params.train.batch_size // num_replicas_in_sync
PerHostBatchSize(b, n) == b \div n

\* functools.partial(fn, batch_size=b): the callable with batch_size bound.
Partial(fn, b) == [fn EXCEPT !.batch_size = b]

\* TrainRescale storing the per-host batch size in the configuration too.
TrainRescale_WritesConfig ==
    /\ pc = "train_rescale"
    /\ IF is_multi_host /\ train_input_fn # None
       THEN LET b == PerHostBatchSize(Cfg.train.batch_size,
                                      strategy[1].num_replicas_in_sync)
            IN /\ train_input_fn' = Some(Partial(train_input_fn[1], b))
               /\ params' = Some([Cfg EXCEPT !.train.batch_size = b])
               /\ pc' = "train"
               /\ UNCHANGED err
       ELSE IF is_multi_host
       THEN /\ Raise("TypeError", <<"the first argument must be callable">>)
            /\ UNCHANGED <<train_input_fn, params>>
       ELSE /\ pc' = "train"
            /\ UNCHANGED <<train_input_fn, params, err>>
    /\ UNCHANGED <<FLAGS, locked, validated, training_file_pattern,
                   eval_file_pattern, eval_input_fn, strategy, is_multi_host,
                   calls, results, todo, log, retval>>

\* lines 73-77: the rescale of the training input function; functools.partial
\* rejects a first argument that is not callable.
TrainRescale ==
    /\ pc = "train_rescale"
    /\ IF is_multi_host
       THEN IF train_input_fn = None
            THEN /\ Raise("TypeError", <<"the first argument must be callable">>)
                 /\ UNCHANGED train_input_fn
            ELSE /\ train_input_fn' =
                      Some(Partial(train_input_fn[1],
                                   PerHostBatchSize(Cfg.train.batch_size,
                                                    strategy[1].num_replicas_in_sync)))
                 /\ pc' = "train"
                 /\ UNCHANGED err
       ELSE /\ pc' = "train"
            /\ UNCHANGED <<train_input_fn, err>>
    /\ UNCHANGED <<FLAGS, params, locked, validated, training_file_pattern,
                   eval_file_pattern, eval_input_fn, strategy, is_multi_host,
                   calls, results, todo, log, retval>>

\* Train calling the training operation a second time.
Train_Retry ==
    /\ pc = "train"
    /\ LET c == [op |-> "train", input_fn |-> train_input_fn,
                 is_multi_host |-> is_multi_host, returned |-> <<>>]
       IN calls' = calls \o <<c, c>>
    /\ retval' = [kind |-> "train", metrics |-> <<>>]
    /\ pc' = "done"
    /\ UNCHANGED <<FLAGS, params, locked, validated, training_file_pattern,
                   eval_file_pattern, train_input_fn, eval_input_fn, strategy,
                   is_multi_host, results, todo, log, err>>

\* lines 79-95: the executor is built and its train operation is called once;
\* it returns its outcome or raises.
Train ==
    /\ pc = "train"
    /\ calls' = Append(calls, [op |-> "train", input_fn |-> train_input_fn,
                               is_multi_host |-> is_multi_host,
                               returned |-> <<>>])
    /\ \/ /\ retval' = [kind |-> "train", metrics |-> <<>>]
          /\ pc' = "done"
          /\ UNCHANGED err
       \/ /\ Raise("ExecutorError", <<"train">>)
          /\ UNCHANGED retval
    /\ UNCHANGED <<FLAGS, params, locked, validated, training_file_pattern,
                   eval_file_pattern, train_input_fn, eval_input_fn, strategy,
                   is_multi_host, results, todo, log>>

\* lines 113-119: the call of evaluate_from_model_dir, with what it reported.
EvalCall(r) ==
    [op |-> "evaluate_from_model_dir", input_fn |-> eval_input_fn,
     is_multi_host |-> FALSE, returned |-> r]

\* lines 101-119: the executor is built and evaluate_from_model_dir is called
\* once; it returns a dict of metrics or raises.
Eval ==
    /\ pc = "eval"
    /\ \/ /\ \E r \in MetricDicts(Len(MetricNames)) :
               /\ calls' = Append(calls, EvalCall(r))
               /\ results' = r
               /\ todo' = r
          /\ pc' = "eval_log"
          /\ UNCHANGED err
       \/ /\ calls' = Append(calls, EvalCall(<<>>))
          /\ Raise("ExecutorError", <<"evaluate_from_model_dir">>)
          /\ UNCHANGED <<results, todo>>
    /\ UNCHANGED <<FLAGS, params, locked, validated, training_file_pattern,
                   eval_file_pattern, train_input_fn, eval_input_fn, strategy,
                   is_multi_host, log, retval>>

\* line 121: logging.info('Final eval metric %s: %f', k, v)
MetricRecord(item) == <<"Final eval metric ", item[1], ": ", item[2]>>

\* lines 120-121: one turn of the loop over results.items()
EvalLog ==
    /\ pc = "eval_log"
    /\ todo # <<>>
    /\ log' = Append(log, MetricRecord(Head(todo)))
    /\ todo' = Tail(todo)
    /\ UNCHANGED <<FLAGS, pc, params, locked, validated, training_file_pattern,
                   eval_file_pattern, train_input_fn, eval_input_fn, strategy,
                   is_multi_host, calls, results, retval, err>>

\* EvalReturn handing back what the loop has left over.
EvalReturn_ReturnsTodo ==
    /\ pc = "eval_log"
    /\ todo = <<>>
    /\ retval' = [kind |-> "metrics", metrics |-> todo]
    /\ pc' = "done"
    /\ UNCHANGED <<FLAGS, params, locked, validated, training_file_pattern,
                   eval_file_pattern, train_input_fn, eval_input_fn, strategy,
                   is_multi_host, calls, results, todo, log, err>>

\* line 122: return results, once the loop has run out
EvalReturn ==
    /\ pc = "eval_log"
    /\ todo = <<>>
    /\ retval' = [kind |-> "metrics", metrics |-> results]
    /\ pc' = "done"
    /\ UNCHANGED <<FLAGS, params, locked, validated, training_file_pattern,
                   eval_file_pattern, train_input_fn, eval_input_fn, strategy,
                   is_multi_host, calls, results, todo, log, err>>

Next ==
    \/ ConfigGenerator
    \/ OverrideConfigFile
    \/ OverrideParams
    \/ OverrideRuntime
    \/ Validate
    \/ Lock
    \/ ResolvePatterns
    \/ BuildTrainInput
    \/ BuildEvalInput
    \/ Dispatch
    \/ TrainStrategy
    \/ TrainRescale
    \/ Train
    \/ Eval
    \/ EvalLog
    \/ EvalReturn

Spec == Init /\ [][Next]_vars

\* The run has ended, by a return or by an exception.
Ended == pc \in {"done", "failed"}

TypeOK ==
    /\ pc \in {"config_generator", "override_config_file", "override_params",
               "override_runtime", "validate", "lock", "resolve_patterns",
               "train_input", "eval_input", "run_executor", "train_strategy",
               "train_rescale", "train", "eval", "eval_log", "done", "failed"}
    /\ locked \in BOOLEAN /\ validated \in BOOLEAN
    /\ Len(calls) <= 2

\* ------------------------------------------------------------------ claims
\* The replicas one host carries (the 8 of line 71).
ReplicasPerHost == 8

\* The file patterns have been resolved (line 153 has run).
Resolved == training_file_pattern # Unbound /\ eval_file_pattern # Unbound

\* The replica count of the strategy the train branch built.
Replicas == strategy[1].num_replicas_in_sync

\* q is floor(b / n), said without a division.
IsFloorOf(q, b, n) == q * n <= b /\ b < (q + 1) * n

\* The logging records of the evaluation loop that report item.
MetricRecordsOf(item) ==
    {j \in 1..Len(log) : /\ Len(log[j]) = 4
                         /\ log[j][2] = item[1]
                         /\ log[j][4] = item[2]}

\* C1: whatever the mode, when the effective training and evaluation file
\* patterns are both empty the run has failed with the missing-input error,
\* no input function has been constructed and no executor operation has been
\* invoked.
C1_NoPatternsFail ==
    (Resolved /\ ~Truthy(training_file_pattern) /\ ~Truthy(eval_file_pattern))
        => /\ pc = "failed"
           /\ err.kind = "MissingInputError"
           /\ train_input_fn = None
           /\ eval_input_fn = None
           /\ calls = <<>>

C1_Witness ==
    /\ pc = "failed"
    /\ err.kind = "MissingInputError"
    /\ FLAGS.mode = "bogus"
    /\ FLAGS.training_file_pattern = ""
    /\ eval_file_pattern = ""

\* C2: a run whose mode is not a recognized one and that has at least one file
\* pattern ends with the invalid-mode error naming the mode, after the input
\* function of every present pattern has been constructed, and without any
\* executor operation.
C2_InvalidModeFails ==
    (Ended /\ Resolved /\ FLAGS.mode \notin RecognizedModes
       /\ (Truthy(training_file_pattern) \/ Truthy(eval_file_pattern)))
        => /\ pc = "failed"
           /\ err.kind = "InvalidModeError"
           /\ err.msg = <<"Mode not found: ", FLAGS.mode, ".">>
           /\ Truthy(training_file_pattern) =>
                train_input_fn = Some(TrainInputFn(training_file_pattern, Cfg))
           /\ Truthy(eval_file_pattern) =>
                eval_input_fn = Some(EvalInputFn(eval_file_pattern, Cfg))
           /\ calls = <<>>

C2_Witness ==
    /\ err.kind = "InvalidModeError"
    /\ FLAGS.mode = "bogus"
    /\ train_input_fn # None
    /\ eval_input_fn = None

\* C3: with a valid configuration and both file patterns present, a run in any
\* of the three documented modes invokes an executor operation and does not
\* end in the invalid-mode error.
C3_DocumentedModesRun ==
    (Ended /\ Resolved /\ FLAGS.mode \in DocumentedModes
       /\ Truthy(training_file_pattern) /\ Truthy(eval_file_pattern))
        => /\ err.kind # "InvalidModeError"
           /\ calls # <<>>

\* C4: in train mode, when the strategy is multi-host (as the code flags it,
\* which covers every strategy of more than one host of 8 replicas), the batch
\* size bound to the training input function passed to the training operation
\* is floor(B / N), B the configuration's train batch size and N the replica
\* count.
C4_PerHostBatchIsFloor ==
    \A i \in 1..Len(calls) :
        (calls[i].op = "train"
           /\ (calls[i].is_multi_host \/ Replicas > ReplicasPerHost))
            => /\ calls[i].input_fn # None
               /\ IsFloorOf(calls[i].input_fn[1].batch_size,
                            Cfg.train.batch_size, Replicas)

C4_Witness ==
    /\ Len(calls) = 1
    /\ calls[1].op = "train"
    /\ Replicas = MaxReplicas
    /\ Cfg.train.batch_size = 3
    /\ calls[1].input_fn[1].batch_size = 0

\* C5: no run invokes more than one executor operation, and a run that returns
\* has invoked exactly one: the training operation exactly when the mode is
\* train, the evaluation operation exactly when the mode is eval.
C5_ExactlyOneOperation ==
    /\ Len(calls) <= 1
    /\ pc = "done" =>
         /\ Len(calls) = 1
         /\ calls[1].op = "train" <=> FLAGS.mode = "train"
         /\ calls[1].op = "evaluate_from_model_dir" <=> FLAGS.mode = "eval"

C5_Witness ==
    /\ pc = "done"
    /\ FLAGS.mode = "train"
    /\ calls[1].op = "train"
    /\ eval_input_fn # None

\* C6: a run whose config-file override or inline override names an unknown
\* key ends at that override, with the configuration neither validated nor
\* locked, no input function constructed and no executor operation invoked.
C6_StrictOverrideFailsFirst ==
    /\ err.kind = "ConfigOverrideError" =>
         /\ ~validated
         /\ ~locked
         /\ train_input_fn = None
         /\ eval_input_fn = None
         /\ calls = <<>>
    /\ (Ended /\ (StrictOverrideFails(FLAGS.config_file)
                    \/ StrictOverrideFails(FLAGS.params_override)))
         => err.kind = "ConfigOverrideError"
    /\ validated =>
         /\ ~StrictOverrideFails(FLAGS.config_file)
         /\ ~StrictOverrideFails(FLAGS.params_override)

C6_Witness ==
    /\ pc = "failed"
    /\ err = [kind |-> "ConfigOverrideError", msg |-> <<"unknown.key">>]
    /\ FLAGS.config_file = None
    /\ FLAGS.params_override # None

\* C7: once the configuration is locked no step changes it; the train batch
\* size it stores stays the global one when the input function is rescaled.
C7_LockedConfigNeverChanges == [][locked => params' = params]_vars

C7_Witness ==
    /\ locked
    /\ pc = "done"
    /\ calls[1].op = "train"
    /\ calls[1].is_multi_host
    /\ calls[1].input_fn[1].batch_size # Cfg.train.batch_size

\* C8: an eval run that returns hands back exactly the items the evaluation
\* operation reported, and each of them has been logged once.
C8_EvalReturnsReportedMetrics ==
    (pc = "done" /\ FLAGS.mode = "eval")
        => /\ retval.kind = "metrics"
           /\ retval.metrics = calls[1].returned
           /\ \A i \in 1..Len(calls[1].returned) :
                Cardinality(MetricRecordsOf(calls[1].returned[i])) = 1
           /\ Len(log) = 1 + Len(calls[1].returned)

C8_Witness ==
    /\ pc = "done"
    /\ FLAGS.mode = "eval"
    /\ Len(calls[1].returned) = 2
    /\ retval.metrics[2] = <<"AR", MaxMetric>>

\* C9: the strategy is flagged multi-host exactly when ceil(N / 8) > 1, and
\* for a single-host strategy (N <= 8) the training input function passed to
\* the training operation keeps the global batch size.
C9_MultiHostIffSeveralHosts ==
    /\ strategy # None =>
         (is_multi_host <=>
            (Replicas + ReplicasPerHost - 1) \div ReplicasPerHost > 1)
    /\ \A i \in 1..Len(calls) :
         (calls[i].op = "train" /\ Replicas <= ReplicasPerHost
            /\ calls[i].input_fn # None)
             => /\ ~calls[i].is_multi_host
                /\ calls[i].input_fn[1].batch_size = Cfg.train.batch_size

\* C10: an executor operation is only invoked with the input function it
\* needs: neither the training nor the evaluation operation is handed None.
C10_InputFnPresent ==
    \A i \in 1..Len(calls) : calls[i].input_fn # None

====
